---- MODULE Spec2Model ----
(***************************************************************************)
(* Tail-and-forward engine of jsonrpc-fsproxy.                             *)
(*                                                                         *)
(* Two engines are modelled side by side, selected by `variant`:           *)
(*   "event" : jsonrpc.FSProxy    (src/pkg/jsonrpc/fsproxy.go, fsnotify)   *)
(*   "poll"  : jsonrpcfile.Proxy  (src/unnamed/part_000, os.Stat polling)  *)
(*                                                                         *)
(* Goroutines of one Run: the Line Source (watchInput), the Dispatcher     *)
(* (processLines), one unit of work per line (processLine), the drain      *)
(* waiter (wg.Wait; waitStream <- ...) and Run itself (the final select).  *)
(* The environment appends to the input file, creates and removes the      *)
(* lock marker, cancels the context and makes watcher/stat/seek/HTTP/write *)
(* calls fail.  main calls FSProxy.Close once Run has returned nil.        *)
(* EquivSpec runs a second, polling Line Source (`twin`) beside the event  *)
(* engine on the same input file to compare what the two deliver.          *)
(***************************************************************************)
EXTENDS Integers, Sequences, FiniteSets, TLC

\* Bounds of the model.
MaxFile == 3      \* largest input file length (bytes) explored
MaxChunk == 2     \* largest single append (bytes)
MaxEvents == 2    \* most fsnotify Write events queued and not yet received
MaxClose == 2     \* most calls of FSProxy.Close explored

NL == "\n"
CR == "\r"
Chars == {"a", NL}

Variants == {"event", "poll"}
None == "none"
NoLine == [text |-> <<>>, from |-> -1]

VARIABLES
    variant,      \* which engine runs
    file,         \* content of the input file (append-only byte sequence)
    events,       \* Write events queued on watcher.Events
    lockMarker,   \* <input>.lock exists
    ctxDone,      \* ctx.Done() is closed
    runPc,        \* Run: "idle", "select", "returned"
    runResult,    \* value Run returned: None (not yet), "nil" or the error
    filesClosed,  \* the output file handle is closed (Proxy.closeFiles, FSProxy.Close)
    inputClosed,  \* FSProxy.Close has closed the input file handle
    watcherClosed, \* FSProxy.Close has closed the watcher
    closeResults, \* values the calls of FSProxy.Close returned, in order
    twin,         \* a polling Line Source run beside the event engine on the
                  \* same input file (strategy comparison, EquivSpec only)
    lsPc,         \* Line Source goroutine position
    lsErr,        \* error the Line Source is sending on errorStream
    offset,       \* read offset of the inputFile handle
    size,         \* Proxy.watchInput's local `size`
    buf,          \* bufio.Scanner buffer (bytes read and not yet tokenised)
    atEOF,        \* the scanner has seen Read return io.EOF
    line,         \* token the Line Source is sending on lineStream
    dispPc,       \* Dispatcher goroutine position
    units,        \* units of work, in the order the Dispatcher received lines
    wg,           \* sync.WaitGroup counter
    mutex,        \* outputFileMutex: 0 when free, else the holding unit
    out,          \* bytes appended to the output file during this run
    waiterPc,     \* drain waiter goroutine position
    startLen,     \* history: input file length when Run was called
    origin,       \* history: offset the engine's first seek chose (-1: none yet)
    writeOrder    \* history: units in the order they acquired the mutex

vars == <<variant, file, events, lockMarker, ctxDone, runPc, runResult,
          filesClosed, lsPc, lsErr, offset, size, buf, atEOF, line, dispPc, units,
          wg, mutex, out, waiterPc, startLen, origin, writeOrder,
          inputClosed, watcherClosed, closeResults, twin>>

envVars == <<file, events, lockMarker, ctxDone>>
runVars == <<runPc, runResult, filesClosed>>
lsVars == <<lsPc, lsErr, offset, size, buf, atEOF, line>>
unitVars == <<units, mutex, out, writeOrder>>
histVars == <<startLen, origin>>
closeVars == <<inputClosed, watcherClosed, closeResults>>

----------------------------------------------------------------------------
\* Sequences and the bufio.ScanLines split function.

Min(a, b) == IF a < b THEN a ELSE b

Chunks == UNION {[1..n -> Chars] : n \in 1..MaxChunk}

Drop(s, n) == SubSeq(s, n + 1, Len(s))

\* Index of the first line terminator of s, 0 when there is none (bytes.IndexByte + 1).
IndexNL(s) ==
    IF \E i \in 1..Len(s) : s[i] = NL
    THEN CHOOSE i \in 1..Len(s) : s[i] = NL /\ \A j \in 1..(i - 1) : s[j] # NL
    ELSE 0

\* bufio.dropCR
DropCR(s) == IF Len(s) > 0 /\ s[Len(s)] = CR THEN SubSeq(s, 1, Len(s) - 1) ELSE s

\* bufio.ScanLines(data, atEOF) -> (advance, token); has = (token # nil).
ScanLines(data, eof) ==
    IF eof /\ Len(data) = 0
    THEN [advance |-> 0, has |-> FALSE, token |-> <<>>]
    ELSE IF IndexNL(data) > 0
    THEN [advance |-> IndexNL(data), has |-> TRUE,
          token |-> DropCR(SubSeq(data, 1, IndexNL(data) - 1))]
    ELSE IF eof
    THEN [advance |-> Len(data), has |-> TRUE, token |-> DropCR(data)]
    ELSE [advance |-> 0, has |-> FALSE, token |-> <<>>]

----------------------------------------------------------------------------
Init ==
    /\ variant \in Variants
    /\ file = <<>>
    /\ events = 0
    /\ lockMarker = FALSE
    /\ ctxDone = FALSE
    /\ runPc = "idle"
    /\ runResult = None
    /\ filesClosed = FALSE
    /\ lsPc = "idle"
    /\ lsErr = None
    /\ offset = 0
    /\ size = 0
    /\ buf = <<>>
    /\ atEOF = FALSE
    /\ line = NoLine
    /\ dispPc = "idle"
    /\ units = <<>>
    /\ wg = 0
    /\ mutex = 0
    /\ out = <<>>
    /\ waiterPc = "idle"
    /\ startLen = 0
    /\ origin = -1
    /\ writeOrder = <<>>
    /\ inputClosed = FALSE
    /\ watcherClosed = FALSE
    /\ closeResults = <<>>
    /\ twin = [pc |-> "idle", offset |-> 0, size |-> 0, buf |-> <<>>, atEOF |-> FALSE,
               got |-> <<>>, startLen |-> 0, first |-> -1]

----------------------------------------------------------------------------
\* Environment.

\* Another process appends a chunk to the input file.  In the event engine the
\* watch was added by NewFSProxy, so every append queues a Write event unless
\* inotify coalesces it with an identical event still queued; content written
\* before NewFSProxy (so before Run is called) queues nothing.
AppendInput ==
    \E c \in Chunks :
        /\ Len(file) + Len(c) <= MaxFile
        /\ file' = file \o c
        /\ \/ /\ variant = "event"
              /\ \/ events' = Min(events + 1, MaxEvents)
                 \/ (events > 0 \/ runPc = "idle") /\ events' = events
           \/ variant = "poll" /\ events' = events
        /\ UNCHANGED <<variant, closeVars, twin, lockMarker, ctxDone>>
        /\ UNCHANGED <<runVars, lsVars, dispPc, unitVars, wg, waiterPc, histVars>>

\* main's signal handler calls cancel().
Cancel ==
    /\ ~ctxDone
    /\ ctxDone' = TRUE
    /\ UNCHANGED <<variant, closeVars, twin, file, events, lockMarker>>
    /\ UNCHANGED <<runVars, lsVars, dispPc, unitVars, wg, waiterPc, histVars>>

\* An external writer creates / removes the <input>.lock marker (event engine).
LockCreate ==
    /\ variant = "event"
    /\ ~lockMarker
    /\ lockMarker' = TRUE
    /\ UNCHANGED <<variant, closeVars, twin, file, events, ctxDone>>
    /\ UNCHANGED <<runVars, lsVars, dispPc, unitVars, wg, waiterPc, histVars>>

LockRemove ==
    /\ variant = "event"
    /\ lockMarker
    /\ lockMarker' = FALSE
    /\ UNCHANGED <<variant, closeVars, twin, file, events, ctxDone>>
    /\ UNCHANGED <<runVars, lsVars, dispPc, unitVars, wg, waiterPc, histVars>>

----------------------------------------------------------------------------
\* Run, up to its select: watchInput and processLines each do wg.Add(1) and start
\* their goroutine, then the drain waiter is started.
RunStart ==
    /\ runPc = "idle"
    /\ runPc' = "select"
    /\ wg' = wg + 2
    /\ lsPc' = IF variant = "event" THEN "seek" ELSE "stat"
    /\ dispPc' = "select"
    /\ waiterPc' = "wait"
    /\ startLen' = Len(file)
    /\ UNCHANGED <<variant, closeVars, twin, envVars, runResult, filesClosed, lsErr, offset, size, buf,
                   atEOF, line, unitVars, origin>>

\* The goroutine's deferred close(lineStream) and wg.Done().
LSReturn ==
    /\ lsPc' = "exit"
    /\ wg' = wg - 1

----------------------------------------------------------------------------
\* Line Source, event engine (FSProxy.watchInput).

\* Mutant of SeekEnd: the seek goes to the start of the file.
SeekEndAtStart(f) == 0

\* inputFile.Seek(0, io.SeekEnd): the new offset.
SeekEnd(f) == Len(f)

FS_Seek ==
    /\ variant = "event"
    /\ lsPc = "seek"
    /\ \/ /\ offset' = SeekEnd(file)
          /\ origin' = offset'
          /\ lsPc' = "select"
          /\ lsErr' = lsErr
       \/ /\ lsPc' = "senderr"
          /\ lsErr' = "seek input"
          /\ UNCHANGED <<offset, origin>>
    /\ UNCHANGED <<variant, closeVars, twin, envVars, runVars, size, buf, atEOF, line, dispPc, unitVars,
                   wg, waiterPc, startLen>>

\* select: case <-ctx.Done()
FS_SelectDone ==
    /\ variant = "event"
    /\ lsPc = "select"
    /\ ctxDone
    /\ LSReturn
    /\ UNCHANGED <<variant, closeVars, twin, envVars, runVars, lsErr, offset, size, buf, atEOF, line,
                   dispPc, unitVars, waiterPc, histVars>>

\* select: case event := <-w.watcher.Events, with event.Op&Write == Write.
FS_SelectEvent ==
    /\ variant = "event"
    /\ lsPc = "select"
    /\ events > 0
    /\ events' = events - 1
    /\ lsPc' = "lockwait"
    /\ UNCHANGED <<variant, closeVars, twin, file, lockMarker, ctxDone, runVars, lsErr, offset, size, buf,
                   atEOF, line, dispPc, unitVars, wg, waiterPc, histVars>>

\* select: case err := <-w.watcher.Errors.  watcher.Errors is unbuffered: the
\* watcher's send of an error and this receive are one step.
FS_SelectError ==
    /\ variant = "event"
    /\ lsPc = "select"
    /\ lsPc' = "senderr"
    /\ lsErr' = "watcher errors"
    /\ UNCHANGED <<variant, closeVars, twin, envVars, runVars, offset, size, buf, atEOF, line, dispPc,
                   unitVars, wg, waiterPc, histVars>>

\* Mutant of LockAbsent: the marker is not looked at.
LockAbsentAlways == TRUE

\* os.Stat(inputFilePath + ".lock") reports the marker absent.
LockAbsent == ~lockMarker

\* Mutant of FS_LockWait: the wait also ends when the context is cancelled.
FS_LockWaitCancellable ==
    /\ variant = "event"
    /\ lsPc = "lockwait"
    /\ \/ /\ LockAbsent
          /\ lsPc' = "scan"
          /\ buf' = <<>>
          /\ atEOF' = FALSE
          /\ wg' = wg
       \/ /\ ctxDone
          /\ LSReturn
          /\ UNCHANGED <<buf, atEOF>>
    /\ UNCHANGED <<variant, closeVars, twin, envVars, runVars, lsErr, offset, size, line, dispPc, unitVars,
                   waiterPc, histVars>>

\* The wait loop: leaves only when the marker is absent (while it is present
\* the goroutine sleeps 100 ms and stats again), then bufio.NewScanner.
FS_LockWait ==
    /\ variant = "event"
    /\ lsPc = "lockwait"
    /\ LockAbsent
    /\ lsPc' = "scan"
    /\ buf' = <<>>
    /\ atEOF' = FALSE
    /\ UNCHANGED <<variant, closeVars, twin, envVars, runVars, lsErr, offset, size, line, dispPc, unitVars,
                   wg, waiterPc, histVars>>

----------------------------------------------------------------------------
\* Line Source, polling engine (Proxy.watchInput).

\* One pass of the loop body up to the scan: os.Stat, the size comparison, the
\* "skip old lines" seek when size == 0, size = stat.Size(), bufio.NewScanner.
P_Stat ==
    /\ variant = "poll"
    /\ lsPc = "stat"
    /\ \/ /\ lsPc' = "senderr"
          /\ lsErr' = "os stat input"
          /\ UNCHANGED <<offset, size, buf, atEOF, origin>>
       \/ /\ size = Len(file)
          /\ lsPc' = "sleep"
          /\ UNCHANGED <<lsErr, offset, size, buf, atEOF, origin>>
       \/ /\ size # Len(file)
          /\ size = 0
          /\ lsPc' = "senderr"
          /\ lsErr' = "seek input"
          /\ UNCHANGED <<offset, size, buf, atEOF, origin>>
       \/ /\ size # Len(file)
          /\ IF size = 0
             THEN offset' = Len(file) /\ origin' = Len(file)
             ELSE UNCHANGED <<offset, origin>>
          /\ size' = Len(file)
          /\ buf' = <<>>
          /\ atEOF' = FALSE
          /\ lsPc' = "scan"
          /\ lsErr' = lsErr
    /\ UNCHANGED <<variant, closeVars, twin, envVars, runVars, line, dispPc, unitVars, wg, waiterPc,
                   startLen>>

\* select under size == stat.Size(): case <-ctx.Done()
P_SleepDone ==
    /\ variant = "poll"
    /\ lsPc = "sleep"
    /\ ctxDone
    /\ LSReturn
    /\ UNCHANGED <<variant, closeVars, twin, envVars, runVars, lsErr, offset, size, buf, atEOF, line,
                   dispPc, unitVars, waiterPc, histVars>>

\* select under size == stat.Size(): case <-time.After(w.watchTimeout)
P_SleepTimeout ==
    /\ variant = "poll"
    /\ lsPc = "sleep"
    /\ lsPc' = "stat"
    /\ UNCHANGED <<variant, closeVars, twin, envVars, runVars, lsErr, offset, size, buf, atEOF, line,
                   dispPc, unitVars, wg, waiterPc, histVars>>

----------------------------------------------------------------------------
\* The scan loop of both engines:
\*     scanner := bufio.NewScanner(w.inputFile)
\*     for scanner.Scan() { line := scanner.Text(); lineStream <- line }
\* Scan returns a token as soon as ScanLines finds one in the buffer; otherwise
\* it reads from the file at the handle's offset; a Read that returns io.EOF
\* makes the next ScanLines call final (atEOF).

\* After the loop: back to the select (event) or to the next os.Stat (poll).
AfterScan == IF variant = "event" THEN "select" ELSE "stat"

\* scanner.Scan() returns true with a token; `from` is the file offset of the
\* token's first byte (history).
LS_ScanToken ==
    /\ lsPc = "scan"
    /\ ScanLines(buf, atEOF).has
    /\ line' = [text |-> ScanLines(buf, atEOF).token, from |-> offset - Len(buf)]
    /\ buf' = Drop(buf, ScanLines(buf, atEOF).advance)
    /\ lsPc' = "send"
    /\ UNCHANGED <<variant, closeVars, twin, envVars, runVars, lsErr, offset, size, atEOF, dispPc,
                   unitVars, wg, waiterPc, histVars>>

\* scanner.Scan() needs more data: one Read of the input file handle.
LS_ScanRead ==
    /\ lsPc = "scan"
    /\ ~ScanLines(buf, atEOF).has
    /\ ~atEOF
    /\ IF offset < Len(file)
       THEN /\ buf' = buf \o Drop(file, offset)
            /\ offset' = Len(file)
            /\ atEOF' = atEOF
       ELSE /\ atEOF' = TRUE
            /\ UNCHANGED <<buf, offset>>
    /\ UNCHANGED <<variant, closeVars, twin, envVars, runVars, lsPc, lsErr, size, line, dispPc, unitVars,
                   wg, waiterPc, histVars>>

\* scanner.Scan() returns false: the loop ends.
LS_ScanEnd ==
    /\ lsPc = "scan"
    /\ ~ScanLines(buf, atEOF).has
    /\ atEOF
    /\ lsPc' = AfterScan
    /\ UNCHANGED <<variant, closeVars, twin, envVars, runVars, lsErr, offset, size, buf, atEOF, line,
                   dispPc, unitVars, wg, waiterPc, histVars>>

----------------------------------------------------------------------------
\* Dispatcher (processLines) and the units of work (processLine).

\* The response body of the endpoint for a line: an endpoint that echoes.
Body(l) == l

NewUnit(l) == [line |-> l.text, from |-> l.from, pc |-> "post", w |-> 0]

\* Where the Dispatcher is after launching a unit: FSProxy starts a goroutine
\* (`go func() {...}()`) and loops; Proxy calls the function in place
\* (`func() {...}()`) and loops only when processLine has returned.
AfterLaunch == IF variant = "event" THEN "select" ELSE "busy"

\* Mutant of Deliver: the unit is launched without wg.Add(1).
DeliverNoAdd ==
    /\ lsPc = "send"
    /\ dispPc = "select"
    /\ units' = Append(units, NewUnit(line))
    /\ wg' = wg
    /\ dispPc' = AfterLaunch
    /\ lsPc' = "scan"
    /\ line' = NoLine
    /\ UNCHANGED <<variant, closeVars, twin, envVars, runVars, lsErr, offset, size, buf, atEOF, mutex, out,
                   writeOrder, waiterPc, histVars>>

\* lineStream <- line meets case line, ok := <-lineStream (unbuffered channel):
\* the Dispatcher does wg.Add(1) and launches the unit.
Deliver ==
    /\ lsPc = "send"
    /\ dispPc = "select"
    /\ units' = Append(units, NewUnit(line))
    /\ wg' = wg + 1
    /\ dispPc' = AfterLaunch
    /\ lsPc' = "scan"
    /\ line' = NoLine
    /\ UNCHANGED <<variant, closeVars, twin, envVars, runVars, lsErr, offset, size, buf, atEOF, mutex, out,
                   writeOrder, waiterPc, histVars>>

\* select: case <-ctx.Done(): return (deferred wg.Done).
Disp_Done ==
    /\ dispPc = "select"
    /\ ctxDone
    /\ dispPc' = "exit"
    /\ wg' = wg - 1
    /\ UNCHANGED <<variant, closeVars, twin, envVars, runVars, lsVars, unitVars, waiterPc, histVars>>

\* select: case line, ok := <-lineStream with !ok (the Line Source closed it).
Disp_Closed ==
    /\ dispPc = "select"
    /\ lsPc = "exit"
    /\ dispPc' = "exit"
    /\ wg' = wg - 1
    /\ UNCHANGED <<variant, closeVars, twin, envVars, runVars, lsVars, unitVars, waiterPc, histVars>>

UnitIds == 1..Len(units)

InFlight(u) == units[u].pc \notin {"done", "failed"}

\* processLine returns: the unit's deferred wg.Done(); in Proxy the Dispatcher,
\* which ran it in place, is back at its select.
UnitReturn(u, status) ==
    /\ units' = [units EXCEPT ![u].pc = status]
    /\ wg' = wg - 1
    /\ dispPc' = IF variant = "poll" THEN "select" ELSE dispPc

\* Mutant of UnitFail: the per-line failure is reported as fatal and Run returns it.
UnitFailFatal(u) ==
    /\ units[u].pc = "post"
    /\ units' = [units EXCEPT ![u].pc = "failed"]
    /\ wg' = wg - 1
    /\ dispPc' = IF variant = "poll" THEN "select" ELSE dispPc
    /\ IF runPc = "select"
       THEN runPc' = "returned" /\ runResult' = "send request"
       ELSE UNCHANGED <<runPc, runResult>>
    /\ UNCHANGED <<variant, closeVars, twin, envVars, filesClosed, lsVars, mutex, out, writeOrder, waiterPc,
                   histVars>>

\* Mutant of UnitFail: a failed request appends its error page to the output file.
UnitFailWrites(u) ==
    /\ units[u].pc = "post"
    /\ UnitReturn(u, "failed")
    /\ out' = out \o <<"a">>
    /\ UNCHANGED <<variant, closeVars, twin, envVars, runVars, lsVars, mutex, writeOrder, waiterPc,
                   histVars>>

FailKinds == {"send request", "status not OK", "read body"}

\* http.Post fails, the status is not 200, or ioutil.ReadAll fails: log, return.
UnitFail(u) ==
    /\ units[u].pc = "post"
    /\ \E kind \in FailKinds : UnitReturn(u, "failed")
    /\ UNCHANGED <<variant, closeVars, twin, envVars, runVars, lsVars, mutex, out, writeOrder, waiterPc,
                   histVars>>

\* 200 and the body is read: the unit goes on to outputFileMutex.Lock().
UnitRespond(u) ==
    /\ units[u].pc = "post"
    /\ units' = [units EXCEPT ![u].pc = "lock"]
    /\ UNCHANGED <<variant, closeVars, twin, envVars, runVars, lsVars, dispPc, wg, mutex, out, writeOrder,
                   waiterPc, histVars>>

\* Mutant of MutexFree: the write is not guarded by the lock.
MutexFreeUnguarded == TRUE

\* sync.Mutex: Lock returns only when no unit holds it.
MutexFree == mutex = 0

UnitLock(u) ==
    /\ units[u].pc = "lock"
    /\ MutexFree
    /\ mutex' = u
    /\ writeOrder' = Append(writeOrder, u)
    /\ units' = [units EXCEPT ![u].pc = "write"]
    /\ UNCHANGED <<variant, closeVars, twin, envVars, runVars, lsVars, dispPc, wg, out, waiterPc, histVars>>

\* outputFile.Write(bodyBytes) in progress: os.File.Write loops over write(2),
\* each call appending some more of the bytes.
UnitWrite(u) ==
    /\ units[u].pc = "write"
    /\ ~filesClosed
    /\ \E k \in 1..(Len(Body(units[u].line)) - units[u].w) :
          /\ out' = out \o SubSeq(Body(units[u].line), units[u].w + 1, units[u].w + k)
          /\ units' = [units EXCEPT ![u].w = units[u].w + k]
    /\ UNCHANGED <<variant, closeVars, twin, envVars, runVars, lsVars, dispPc, wg, mutex, writeOrder,
                   waiterPc, histVars>>

\* Write returned nil (all bytes written): deferred Unlock, return.
UnitWriteOk(u) ==
    /\ units[u].pc = "write"
    /\ units[u].w = Len(Body(units[u].line))
    /\ ~(filesClosed /\ units[u].w = 0)
    /\ mutex' = 0
    /\ UnitReturn(u, "done")
    /\ UNCHANGED <<variant, closeVars, twin, envVars, runVars, lsVars, out, writeOrder, waiterPc, histVars>>

\* Mutant of UnitWriteFail: the error path returns without Unlock.
UnitWriteFailKeepsLock(u) ==
    /\ units[u].pc = "write"
    /\ \/ units[u].w < Len(Body(units[u].line))
       \/ filesClosed /\ units[u].w = 0
    /\ mutex' = mutex
    /\ UnitReturn(u, "failed")
    /\ UNCHANGED <<variant, closeVars, twin, envVars, runVars, lsVars, out, writeOrder, waiterPc, histVars>>

\* Write returned an error (n < len(b), or the file is closed): log, deferred
\* Unlock, return.
UnitWriteFail(u) ==
    /\ units[u].pc = "write"
    /\ \/ units[u].w < Len(Body(units[u].line))
       \/ filesClosed /\ units[u].w = 0
    /\ mutex' = 0
    /\ UnitReturn(u, "failed")
    /\ UNCHANGED <<variant, closeVars, twin, envVars, runVars, lsVars, out, writeOrder, waiterPc, histVars>>

----------------------------------------------------------------------------
\* The drain waiter and Run's select.

\* Mutant of WgWaitReturns: one registration is not waited for.
WgWaitReturnsEarly == wg <= 1

\* wg.Wait() returns when the counter is zero.
WgWaitReturns == wg = 0

Waiter_Wait ==
    /\ waiterPc = "wait"
    /\ WgWaitReturns
    /\ waiterPc' = "send"
    /\ UNCHANGED <<variant, closeVars, twin, envVars, runVars, lsVars, dispPc, unitVars, wg, histVars>>

\* Proxy.Run defers closeFiles; FSProxy leaves closing to Close.
ClosesOnReturn == variant = "poll"

\* case <-waitStream: return nil
Run_Drained ==
    /\ runPc = "select"
    /\ waiterPc = "send"
    /\ waiterPc' = "exit"
    /\ runPc' = "returned"
    /\ runResult' = "nil"
    /\ filesClosed' = ClosesOnReturn
    /\ UNCHANGED <<variant, closeVars, twin, envVars, lsVars, dispPc, unitVars, wg, histVars>>

\* Mutant of ErrResult: the received error is dropped.
ErrResultDropped(e) == "nil"

\* What Run returns for an error received from errorStream.
ErrResult(e) == e

\* case err := <-w.errorStream: return err.  The send of the Line Source
\* (errorStream is unbuffered) completes, and the Line Source returns.
Run_Error ==
    /\ runPc = "select"
    /\ lsPc = "senderr"
    /\ runPc' = "returned"
    /\ runResult' = ErrResult(lsErr)
    /\ filesClosed' = ClosesOnReturn
    /\ LSReturn
    /\ UNCHANGED <<variant, closeVars, twin, envVars, lsErr, offset, size, buf, atEOF, line, dispPc,
                   unitVars, waiterPc, histVars>>

----------------------------------------------------------------------------
\* FSProxy.Close, as main calls it: deferred, so after Run has returned nil
\* (on an error from Run main exits through logger.Fatal and nothing is closed).

\* os.File.Close: an error when the handle has been closed before, or when the
\* system call fails (fail); the handle is closed afterwards in every case.
FileCloseFails(closed, fail) == closed \/ fail

Close ==
    /\ variant = "event"
    /\ runPc = "returned"
    /\ runResult = "nil"
    /\ Len(closeResults) < MaxClose
    /\ \E fail \in {"none", "input", "output", "watcher"} :
          IF FileCloseFails(inputClosed, fail = "input")
          THEN /\ inputClosed' = TRUE
               /\ closeResults' = Append(closeResults, "close input file")
               /\ UNCHANGED <<filesClosed, watcherClosed>>
          ELSE IF FileCloseFails(filesClosed, fail = "output")
          THEN /\ inputClosed' = TRUE
               /\ filesClosed' = TRUE
               /\ closeResults' = Append(closeResults, "close output file")
               /\ UNCHANGED watcherClosed
          ELSE /\ inputClosed' = TRUE
               /\ filesClosed' = TRUE
               /\ watcherClosed' = TRUE
               /\ closeResults' = Append(closeResults,
                                        IF fail = "watcher" THEN "close watcher" ELSE "nil")
    /\ UNCHANGED <<variant, twin, envVars, runPc, runResult, lsVars, dispPc, unitVars, wg,
                   waiterPc, histVars>>

----------------------------------------------------------------------------
\* The two Line Sources side by side.  `twin` is the state of a polling Line
\* Source (Proxy.watchInput) that reads the same input file as the event engine
\* of the other variables; its lineStream is received at once, the lines
\* delivered are twin.got.  History: twin.startLen is the file length when it
\* started, twin.first the file length its first os.Stat reported (-1: none yet).

otherVars == <<variant, closeVars, envVars, runVars, lsVars, dispPc, unitVars, wg,
               waiterPc, histVars>>

\* Proxy.Run starts watchInput: var size int64.
T_Start ==
    /\ twin.pc = "idle"
    /\ twin' = [twin EXCEPT !.pc = "stat", !.size = 0, !.startLen = Len(file)]
    /\ UNCHANGED otherVars

\* os.Stat, the size comparison, the seek under size == 0, size = stat.Size(),
\* bufio.NewScanner (as P_Stat).
T_Stat ==
    /\ twin.pc = "stat"
    /\ \/ twin' = [twin EXCEPT !.pc = "failed"]
       \/ /\ twin.size = Len(file)
          /\ twin' = [twin EXCEPT !.pc = "sleep",
                                  !.first = IF @ < 0 THEN Len(file) ELSE @]
       \/ /\ twin.size # Len(file)
          /\ twin' = [twin EXCEPT !.pc = "scan",
                                  !.first = IF @ < 0 THEN Len(file) ELSE @,
                                  !.offset = IF twin.size = 0 THEN Len(file) ELSE @,
                                  !.size = Len(file),
                                  !.buf = <<>>,
                                  !.atEOF = FALSE]
    /\ UNCHANGED otherVars

\* case <-time.After(w.watchTimeout): continue
T_SleepTimeout ==
    /\ twin.pc = "sleep"
    /\ twin' = [twin EXCEPT !.pc = "stat"]
    /\ UNCHANGED otherVars

\* scanner.Scan() returns a token and the line is sent (as LS_ScanToken).
T_ScanToken ==
    /\ twin.pc = "scan"
    /\ ScanLines(twin.buf, twin.atEOF).has
    /\ twin' = [twin EXCEPT !.got = Append(@, ScanLines(twin.buf, twin.atEOF).token),
                            !.buf = Drop(@, ScanLines(twin.buf, twin.atEOF).advance)]
    /\ UNCHANGED otherVars

\* scanner.Scan() reads from the input file handle (as LS_ScanRead).
T_ScanRead ==
    /\ twin.pc = "scan"
    /\ ~ScanLines(twin.buf, twin.atEOF).has
    /\ ~twin.atEOF
    /\ twin' = IF twin.offset < Len(file)
               THEN [twin EXCEPT !.buf = @ \o Drop(file, twin.offset),
                                 !.offset = Len(file)]
               ELSE [twin EXCEPT !.atEOF = TRUE]
    /\ UNCHANGED otherVars

\* scanner.Scan() returns false: next pass of the loop (as LS_ScanEnd).
T_ScanEnd ==
    /\ twin.pc = "scan"
    /\ ~ScanLines(twin.buf, twin.atEOF).has
    /\ twin.atEOF
    /\ twin' = [twin EXCEPT !.pc = "stat"]
    /\ UNCHANGED otherVars

----------------------------------------------------------------------------
Next ==
    \/ AppendInput
    \/ Cancel
    \/ LockCreate
    \/ LockRemove
    \/ RunStart
    \/ FS_Seek
    \/ FS_SelectDone
    \/ FS_SelectEvent
    \/ FS_SelectError
    \/ FS_LockWait
    \/ P_Stat
    \/ P_SleepDone
    \/ P_SleepTimeout
    \/ LS_ScanToken
    \/ LS_ScanRead
    \/ LS_ScanEnd
    \/ Deliver
    \/ Disp_Done
    \/ Disp_Closed
    \/ \E u \in UnitIds : UnitFail(u)
    \/ \E u \in UnitIds : UnitRespond(u)
    \/ \E u \in UnitIds : UnitLock(u)
    \/ \E u \in UnitIds : UnitWrite(u)
    \/ \E u \in UnitIds : UnitWriteOk(u)
    \/ \E u \in UnitIds : UnitWriteFail(u)
    \/ Waiter_Wait
    \/ Run_Drained
    \/ Run_Error
    \/ Close

Spec == Init /\ [][Next]_vars

\* The event engine and the polling Line Source on one input file, with no
\* cancellation and no lock marker: what each strategy delivers.
EquivInit == Init /\ variant = "event"

EquivNext ==
    \/ AppendInput
    \/ RunStart
    \/ FS_Seek
    \/ FS_SelectEvent
    \/ FS_LockWait
    \/ LS_ScanToken
    \/ LS_ScanRead
    \/ LS_ScanEnd
    \/ Deliver
    \/ T_Start
    \/ T_Stat
    \/ T_SleepTimeout
    \/ T_ScanToken
    \/ T_ScanRead
    \/ T_ScanEnd

EquivSpec == EquivInit /\ [][EquivNext]_vars

\* Scheduling: every goroutine that can take a step eventually takes one, and
\* every request and write in flight eventually completes.  The environment
\* (appends, the lock marker, cancellation) is under no obligation.  A select
\* picks at random among its ready cases, so the polling loop, which comes back
\* to its select for ever, cannot miss a closed ctx.Done() for ever.
LSStep ==
    \/ FS_Seek \/ FS_SelectDone \/ FS_SelectEvent \/ FS_LockWait
    \/ P_Stat \/ P_SleepDone \/ P_SleepTimeout
    \/ LS_ScanToken \/ LS_ScanRead \/ LS_ScanEnd

DispStep == Deliver \/ Disp_Done \/ Disp_Closed

UnitStep(u) ==
    /\ u \in UnitIds
    /\ \/ UnitFail(u) \/ UnitRespond(u) \/ UnitLock(u)
       \/ UnitWrite(u) \/ UnitWriteOk(u) \/ UnitWriteFail(u)

RunStep == Run_Drained \/ Run_Error

FairSpec ==
    /\ Spec
    /\ WF_vars(LSStep)
    /\ SF_vars(P_SleepDone)
    /\ WF_vars(DispStep)
    /\ \A u \in 1..MaxFile : WF_vars(UnitStep(u))
    /\ WF_vars(Waiter_Wait)
    /\ WF_vars(RunStep)

----------------------------------------------------------------------------
\* Vocabulary of the properties.

\* Every line the Line Source has emitted: those the Dispatcher received, in
\* order, then the one being sent.
Received == [i \in UnitIds |-> [text |-> units[i].line, from |-> units[i].from]]
Emitted == IF lsPc = "send" THEN Append(Received, line) ELSE Received
ReceivedText == [i \in UnitIds |-> units[i].line]

\* The complete (terminated) lines of s, each with the offset of its first byte
\* when s starts at offset base.
RECURSIVE CompleteLinesFrom(_, _)
CompleteLinesFrom(s, base) ==
    IF IndexNL(s) = 0
    THEN <<>>
    ELSE <<[text |-> SubSeq(s, 1, IndexNL(s) - 1), from |-> base]>>
         \o CompleteLinesFrom(Drop(s, IndexNL(s)), base + IndexNL(s))

CompleteText(s) ==
    [i \in 1..Len(CompleteLinesFrom(s, 0)) |-> CompleteLinesFrom(s, 0)[i].text]

IsPrefix(s, t) == Len(s) <= Len(t) /\ SubSeq(t, 1, Len(s)) = s

\* The line is followed by a terminator in the input file.
Terminated(l) ==
    /\ l.from + Len(l.text) < Len(file)
    /\ file[l.from + Len(l.text) + 1] = NL

\* The bytes unit u has written to the output file.
Written(u) == SubSeq(Body(units[u].line), 1, units[u].w)

RECURSIVE ConcatWritten(_)
ConcatWritten(order) ==
    IF order = <<>> THEN <<>> ELSE Written(Head(order)) \o ConcatWritten(Tail(order))

Writers == {u \in UnitIds : units[u].pc = "write"}

FatalErrors == {"seek input", "os stat input", "watcher errors"}

\* The Line Source has nothing left to do until the file grows.
LSCaughtUp ==
    \/ variant = "event" /\ lsPc = "select" /\ events = 0
    \/ variant = "poll" /\ lsPc = "sleep" /\ size = Len(file)

----------------------------------------------------------------------------
\* C2 (drain safety): Run returns nil only when the Line Source and the
\* Dispatcher have exited and every unit ever launched has finished, its
\* request and its output write over (the lock released); never while a unit
\* is in flight.
C2_DrainSafety ==
    runResult = "nil" =>
        /\ lsPc = "exit"
        /\ dispPc = "exit"
        /\ \A u \in UnitIds : ~InFlight(u)
        /\ mutex = 0

\* Run has returned nil after launching two units, one of which wrote its response.
C2_Witness ==
    /\ runResult = "nil"
    /\ Len(units) >= 2
    /\ \E u \in UnitIds : units[u].pc = "done" /\ units[u].w > 0

\* C3 (partial-line deferral): the Line Source emits no line for text that has
\* no terminator in the input file: every emitted line is followed by a line
\* terminator in the file.
C3_PartialLineDeferral ==
    \A i \in 1..Len(Emitted) : Terminated(Emitted[i])

\* C5 (no replay): no line delivered to the Dispatcher (or being sent to it)
\* comes from the bytes that were in the input file when Run was called.
C5_NoReplay ==
    \A i \in 1..Len(Emitted) : Emitted[i].from >= startLen

\* The file held the complete line "a" before Run was called, and a line
\* appended afterwards has been delivered.
C5_Witness ==
    /\ startLen >= 2
    /\ SubSeq(file, 1, 2) = <<"a", NL>>
    /\ Len(units) >= 1

\* C7 (write atomicity): at most one unit is inside the output-file write; the
\* output file is the concatenation, in the order the lock was taken, of what
\* each unit wrote, where only the unit holding the lock may be part-way and a
\* unit that completed successfully wrote its whole response body.
C7_WriteAtomicity ==
    /\ Cardinality(Writers) <= 1
    /\ out = ConcatWritten(writeOrder)
    /\ \A i \in 1..Len(writeOrder) :
          units[writeOrder[i]].pc = "write" => i = Len(writeOrder)
    /\ \A u \in UnitIds :
          units[u].pc = "done" => Written(u) = Body(units[u].line)
    /\ (\A u \in UnitIds : units[u].pc = "done") =>
          /\ Len(writeOrder) = Len(units)
          /\ \A u \in UnitIds : \E i \in 1..Len(writeOrder) : writeOrder[i] = u

\* One unit is part-way through writing its body while another, whose
\* response has arrived, waits for the lock.
C7_Witness ==
    \E u, v \in UnitIds :
        /\ units[u].pc = "write"
        /\ units[u].w >= 1
        /\ units[u].w < Len(Body(units[u].line))
        /\ units[v].pc = "lock"

----------------------------------------------------------------------------
\* C1 (clean shutdown): provided no fatal error is reported and the lock marker
\* does not stay in the way, once the context is cancelled during Run, Run
\* eventually returns nil (every request in flight completes by fairness).
C1_CleanShutdown ==
    ([](lsErr = None) /\ <>[](~lockMarker)) =>
        ((ctxDone /\ runPc = "select") ~> (runPc = "returned" /\ runResult = "nil"))

\* C4 (line ordering): the lines the Dispatcher has received are, in order, the
\* first complete lines of what the file holds after the engine's read origin.
C4_LineOrdering ==
    origin >= 0 => IsPrefix(ReceivedText, CompleteText(Drop(file, origin)))

\* C6 (no loss from an empty start): when the input file was empty as Run was
\* called and the Line Source has caught up with the file, every complete line
\* of the file has been emitted.
C6_NoLossFromEmptyStart ==
    (startLen = 0 /\ runPc = "select" /\ LSCaughtUp) =>
        \A i \in 1..Len(CompleteLinesFrom(file, 0)) :
            \E j \in 1..Len(Emitted) : Emitted[j] = CompleteLinesFrom(file, 0)[i]

\* C8 (fatal versus recoverable isolation): Run returns a non-nil error only
\* when it is the error the Line Source reported; a step in which a unit fails
\* leaves Run, the error channel and the Line Source as they were and leaves the
\* Dispatcher running (at its select, ready for the next line).
C8_FailureIsolation ==
    /\ [](runResult \notin {None, "nil"} => runResult \in FatalErrors /\ lsErr = runResult)
    /\ [][(\E u \in UnitIds : units[u].pc # "failed" /\ units'[u].pc = "failed") =>
            /\ runPc' = runPc
            /\ runResult' = runResult
            /\ lsPc' = lsPc
            /\ lsErr' = lsErr
            /\ dispPc' \in {dispPc, "select"}]_vars

\* A unit has failed, Run is still running, and a line received after the
\* failed one has been served.
C8_Witness ==
    /\ runPc = "select"
    /\ dispPc = "select"
    /\ \E u, v \in UnitIds : u < v /\ units[u].pc = "failed" /\ units[v].pc = "done"

\* Once the Line Source has an error to report, Run is at its select and has
\* returned nothing, or has returned exactly that error.
ErrorOutcome ==
    lsErr # None =>
        \/ lsPc = "senderr" /\ runPc = "select" /\ runResult = None
        \/ lsPc = "exit" /\ runPc = "returned" /\ runResult = lsErr

\* C9 (fatal error outcome): an error the Line Source reports on errorStream is
\* eventually returned by Run, exactly that error and never nil, whatever units
\* are still in flight.
C9_FatalErrorOutcome ==
    /\ []ErrorOutcome
    /\ (lsErr # None) ~> (runPc = "returned" /\ runResult = lsErr)

\* Run has returned the Line Source's error while a unit is still in flight.
C9_Witness ==
    /\ runPc = "returned"
    /\ runResult \in FatalErrors
    /\ \E u \in UnitIds : InFlight(u)

\* C10 (non-blocking intake): whenever the Line Source offers a line and the
\* Dispatcher has not returned, the Dispatcher is at its select, ready to
\* receive: it never waits for the unit of an earlier line.
C10_NonBlockingIntake ==
    (lsPc = "send" /\ dispPc # "exit") => dispPc = "select"

----------------------------------------------------------------------------
\* C11 (no launch after cancellation): in a state where the context is
\* cancelled, no step launches a further unit of work.
C11_NoLaunchAfterCancel ==
    [][ctxDone => Len(units') = Len(units)]_vars

----------------------------------------------------------------------------
\* C12 (Close is idempotent): a call of Close that returns nil has released the
\* input file, the output file and the watcher, and a second call of Close after
\* a first one that returned nil returns nil as well.
C12_CloseIdempotent ==
    /\ (Len(closeResults) >= 1 /\ closeResults[1] = "nil") =>
           inputClosed /\ filesClosed /\ watcherClosed
    /\ (Len(closeResults) >= 2 /\ closeResults[1] = "nil") =>
           closeResults[2] = "nil"

----------------------------------------------------------------------------
\* C13 (strategy equivalence): started on the same input file content (each
\* having made its first observation of the file before anything is appended)
\* and fed the same appends, the event-driven and the polling Line Source have
\* delivered the same sequence of lines whenever both have caught up with the
\* file.
TwinCaughtUp == twin.pc = "sleep" /\ twin.size = Len(file)

C13_StrategyEquivalence ==
    ( /\ runPc = "select"
      /\ twin.pc # "idle"
      /\ twin.startLen = startLen
      /\ origin = startLen
      /\ twin.first = startLen
      /\ LSCaughtUp
      /\ lsPc # "send"
      /\ TwinCaughtUp ) => ReceivedText = twin.got

----------------------------------------------------------------------------
\* C14 as stated (output only on success): a unit appends to the output file at
\* most once, only after its request succeeded, then exactly its response body;
\* a unit that failed, at whatever point, has left the output file unchanged.
HasLock(u) == \E i \in 1..Len(writeOrder) : writeOrder[i] = u

C14_OutputOnlyOnSuccess ==
    /\ \A i, j \in 1..Len(writeOrder) : writeOrder[i] = writeOrder[j] => i = j
    /\ \A u \in UnitIds :
          /\ units[u].pc \in {"post", "lock"} => units[u].w = 0
          /\ units[u].pc = "done" => Written(u) = Body(units[u].line)
          /\ units[u].pc = "failed" => units[u].w = 0

\* C14 (amended): each line received makes one unit, which sends one request and
\* takes the output lock at most once; it appends only after its request
\* succeeded (200, body read) and, when the write succeeds, has appended exactly
\* the response body.  A failure of the request, the status or the body read
\* leaves the output file unchanged; a failed write may have appended a proper
\* prefix of the body before failing.  The step in which a unit fails appends
\* nothing, and a unit that has ended is never run again (no retry).
C14_OutputOnSuccessOrPartial ==
    /\ [](/\ \A i, j \in 1..Len(writeOrder) : writeOrder[i] = writeOrder[j] => i = j
          /\ \A u \in UnitIds :
                /\ units[u].pc \in {"post", "lock"} => units[u].w = 0 /\ ~HasLock(u)
                /\ units[u].pc = "done" => Written(u) = Body(units[u].line)
                /\ (units[u].pc = "failed" /\ ~HasLock(u)) => units[u].w = 0
                /\ (units[u].pc = "failed" /\ HasLock(u)) =>
                       \/ units[u].w < Len(Body(units[u].line))
                       \/ units[u].w = 0)
    /\ [][\A u \in UnitIds :
            /\ units[u].pc \in {"done", "failed"} => units'[u] = units[u]
            /\ units'[u].pc = "post" => units[u].pc = "post"
            /\ (units[u].pc # "failed" /\ units'[u].pc = "failed") => out' = out]_vars

\* A unit whose write failed after part of its body had been appended.
C14_Witness ==
    \E u \in UnitIds :
        /\ units[u].pc = "failed"
        /\ units[u].w >= 1
        /\ units[u].w < Len(Body(units[u].line))

----------------------------------------------------------------------------
\* C15 (scope of the output lock): the lock is held exactly by the unit that is
\* inside its write call; a unit takes it only once its request has returned
\* with the body read, and gives it back in the step in which its write
\* returns; no unit holds it while its request is in flight, so a unit whose
\* response is ready can take the lock whenever no write is in progress,
\* however many requests of other units are still pending.
C15_LockScope ==
    /\ [](/\ mutex # 0 => mutex \in UnitIds /\ units[mutex].pc = "write"
          /\ \A u \in UnitIds :
                /\ units[u].pc = "write" => mutex = u
                /\ (units[u].pc = "lock" /\ Writers = {}) => ENABLED UnitLock(u))
    /\ [][\A u \in UnitIds :
            /\ (mutex # u /\ mutex' = u) => units[u].pc = "lock"
            /\ (units[u].pc = "write" /\ units'[u].pc # "write") => mutex' = 0]_vars

\* A request sent earlier is still pending while a unit launched after it has
\* already written its response and returned.
C15_Witness ==
    \E u, v \in UnitIds :
        /\ u < v
        /\ units[u].pc = "post"
        /\ units[v].pc = "done"
        /\ units[v].w >= 1

----------------------------------------------------------------------------
\* C16 (lock-marker gating, event engine): after a write event the Line Source
\* enters its scan only from the marker wait, in a step that finds the marker
\* absent; in a state where it waits and the marker is present, the next step
\* leaves it waiting, with no line read, emitted or delivered.
C16_LockMarkerGating ==
    /\ [][(variant = "event" /\ lsPc' = "scan" /\ lsPc \notin {"scan", "send"}) =>
            lsPc = "lockwait" /\ ~lockMarker]_vars
    /\ [][(lsPc = "lockwait" /\ lockMarker) =>
            /\ lsPc' = "lockwait"
            /\ line' = line
            /\ offset' = offset
            /\ Len(units') = Len(units)]_vars

\* A write event has been received, appended bytes are unread, and the Line
\* Source is held by the marker.
C16_Witness ==
    /\ lsPc = "lockwait"
    /\ lockMarker
    /\ offset < Len(file)
    /\ runPc = "select"

----------------------------------------------------------------------------
\* C17 (the marker wait cannot be cancelled): in a state where the context is
\* cancelled, the Line Source waits for the marker and the marker is present,
\* Run has not returned, and the next step leaves the Line Source waiting and
\* Run where it is, whatever else has finished.
C17_UncancellableLockWait ==
    /\ []((lsPc = "lockwait" /\ ctxDone) => runPc = "select" /\ wg >= 1)
    /\ [][(lsPc = "lockwait" /\ ctxDone /\ lockMarker) =>
            lsPc' = "lockwait" /\ runPc' = runPc /\ wg' >= 1]_vars

\* Cancelled, the Dispatcher gone, every unit finished: only the Line Source,
\* held by the marker, keeps Run from returning.
C17_Witness ==
    /\ lsPc = "lockwait"
    /\ lockMarker
    /\ ctxDone
    /\ dispPc = "exit"
    /\ units # <<>>
    /\ \A u \in UnitIds : ~InFlight(u)
    /\ runPc = "select"

----------------------------------------------------------------------------
\* C18 (no close under a writer, polling engine): once Proxy.Run has returned
\* and its deferred closeFiles has closed the output file, no unit is between
\* sending its request and the end of its write.
C18_NoCloseDuringWork ==
    (variant = "poll" /\ filesClosed) => \A u \in UnitIds : ~InFlight(u)

----------------------------------------------------------------------------
\* C19 (no goroutine left behind): when Run has returned, every request in
\* flight has finished and no goroutine of the run can take a further step,
\* the Line Source, the Dispatcher and the drain waiter have all terminated
\* (none is blocked for ever on a channel).
C19_NoGoroutineLeak ==
    ( /\ runPc = "returned"
      /\ \A u \in UnitIds : ~InFlight(u)
      /\ ~ENABLED (LSStep \/ DispStep \/ Waiter_Wait) ) =>
        lsPc = "exit" /\ dispPc = "exit" /\ waiterPc = "exit"

----------------------------------------------------------------------------
====
